---- MODULE Spec2Model ----
(***************************************************************************)
(* A model of RiveSprite (src/rive_pixi.js): the component that owns one   *)
(* artboard, the lists of active animation and state-machine instances,    *)
(* the input-field registry and the self-rescheduling render loop.         *)
(*                                                                         *)
(* The object is modelled as a record "s" holding its fields, the host     *)
(* scheduler and the native instances it refers to.  Every method is       *)
(* an operator from a record to a record, so that a method calling another *)
(* (the constructor's continuation, loadStateMachine calling               *)
(* unloadStateMachine, destroy calling disable) is operator composition.   *)
(* Every action applies one handler to the current state and commits the   *)
(* record it returns.                                                      *)
(***************************************************************************)
EXTENDS Integers, Sequences, FiniteSets, TLC

\* ------------------------------------------------------------------ bounds

\* Native instances (artboards, state machines, animations) created in a run.
MaxObjects == 4
\* The host clock stops at this timestamp (milliseconds).
MaxTime == 3
\* Frame requests that can be pending in the host scheduler at once.
MaxHandles == 3
\* State changes one state machine reports after one advance.
MaxChanged == 1

\* ------------------------------------------------- the scene file (catalog)

\* JavaScript's undefined / null: an omitted argument, a failed lookup.
Undefined == "undefined"
\* The id of no native instance (an unset field).
NoId == 0
\* What the name getter of an instance built from a missing description reads.
NoName == ""

\* The artboards of the loaded file, by index; the first is the default one.
ArtboardNames == <<"Main">>
\* The state machines and timeline animations of an artboard, by index.
StateMachineNames == <<"A", "B">>
AnimationNames == <<"X", "Y">>
\* A name that no artboard, state machine or animation of the file has.
MissingName == "Z"

\* The bounds of an artboard: minX, minY, maxX, maxY.
BoundsOf(name) == [minX |-> 0, minY |-> 0, maxX |-> 2, maxY |-> 1]

\* The inputs a state machine exposes, by index.
InputsOf(machine) ==
    CASE machine = "A" -> << [name |-> "Active", kind |-> "bool"],
                             [name |-> "Go", kind |-> "trigger"] >>
      [] machine = "B" -> << [name |-> "Level", kind |-> "number"],
                             [name |-> "Active", kind |-> "bool"] >>
      [] OTHER -> << >>

Kinds == {"bool", "trigger", "number"}
BoolValues == {"false", "true"}
NumberValues == {"0", "1"}
Values == BoolValues \cup NumberValues
ValuesOf(kind) ==
    CASE kind = "bool" -> BoolValues
      [] kind = "number" -> NumberValues
      [] OTHER -> {}
\* The value a freshly instantiated input holds; a trigger has none.
DefaultValue(kind) ==
    CASE kind = "bool" -> "false"
      [] kind = "number" -> "0"
      [] OTHER -> Undefined

Range(seq) == {seq[i] : i \in DOMAIN seq}
InputNames == UNION {{InputsOf(m)[i].name : i \in DOMAIN InputsOf(m)} :
                        m \in Range(StateMachineNames)}
FieldNames == InputNames \cup {MissingName}

\* file.artboardByName / artboard.stateMachineByName / artboard.animationByName:
\* the description of that name, or null.
ByName(names, name) == IF name \in Range(names) THEN name ELSE Undefined
\* file.defaultArtboard / artboard.stateMachineByIndex / animationByIndex.
ByIndex(names, i) == IF i + 1 \in DOMAIN names THEN names[i + 1] ELSE Undefined

\* ------------------------------------------------------------ the variables

VARIABLES
    pc,             \* where the constructor's asynchronous initialisation stands
    options,        \* the options the constructor was given
    destroyed,      \* destroy() has been called
    rive,           \* _rive is set (the engine module is loaded)
    file,           \* _file is set
    canvas,         \* _canvas is set
    renderer,       \* _renderer is set
    artboard,       \* the artboard instance, or NoArtboard
    animations,     \* the active animation instances, in list order
    stateMachines,  \* the active state-machine instances, in list order
    inputFields,    \* the registry: input name -> field handle
    fit,            \* the fit mode
    align,          \* the alignment mode
    maxWidth,       \* the configured frame width, 0 when not set
    maxHeight,      \* the configured frame height, 0 when not set
    aligned,        \* _aligned: the cached alignment, or NotAligned
    canvasSize,     \* the width and height of _canvas
    enabled,        \* _enabled
    animFrame,      \* _animFrame: the handle enable() stored, or 0
    lastTime,       \* _lastTime
    created,        \* the number of native instances created so far
    fileDeletes,    \* how often the file handle was released
    rendererDeletes,\* how often the renderer was released
    pending,        \* the frame requests pending in the host scheduler
    now,            \* the host clock
    log,            \* the native calls and callbacks of the last handler run
    call,           \* the last handler run and its arguments
    ret,            \* what it returned, or "throw"
    hist            \* history, since initialisation completed: disable() was the
                    \* last of enable/disable called; enable() was called after
                    \* a disable() and no frame step has run since.  And, until
                    \* initialisation completes: the last of enable/disable
                    \* called, or "none"

vars == << pc, options, destroyed, rive, file, canvas, renderer, artboard,
           animations, stateMachines, inputFields, fit, align, maxWidth,
           maxHeight, aligned, canvasSize, enabled, animFrame,
           lastTime, created, fileDeletes, rendererDeletes, pending, now, log,
           call, ret, hist >>

\* What the engine does where the code leaves it undefined, chosen by the action:
\*   ctor     a constructor given a null description throws or builds an instance
\*   kind,val what reading the type / value of a field of a released instance gives
\*   changed  the number of state changes each state machine reports
\*   callback what the host's onStateChange callback calls on the sprite
\*   name     the state machine it names in that call
NoOracle == [ctor |-> "throw", kind |-> "bool",
             val |-> Undefined, changed |-> << >>, callback |-> "none",
             name |-> Undefined]

\* The object and its environment as one record.
This(oracle) ==
    [ rive |-> rive, file |-> file, canvas |-> canvas, renderer |-> renderer,
      artboard |-> artboard, animations |-> animations,
      stateMachines |-> stateMachines, inputFields |-> inputFields,
      fit |-> fit, align |-> align, maxWidth |-> maxWidth,
      maxHeight |-> maxHeight, aligned |-> aligned, canvasSize |-> canvasSize,
      enabled |-> enabled, animFrame |-> animFrame,
      lastTime |-> lastTime, created |-> created, fileDeletes |-> fileDeletes,
      rendererDeletes |-> rendererDeletes, pending |-> pending,
      onStateChange |-> options.onStateChange,
      log |-> << >>, thrown |-> FALSE, overflow |-> FALSE, result |-> Undefined,
      oracle |-> oracle ]

\* ------------------------------------------------------ native instances

\* A native instance: its identity, its name, the artboard instance it is bound
\* to (NoId for an artboard), how often delete() was called on it, and the values
\* of its inputs by index (a state-machine instance).
Instance(id, name, ab, vals) ==
    [id |-> id, name |-> name, ab |-> ab, deletes |-> 0, vals |-> vals]

\* The artboard field before an artboard is loaded, or after a failed lookup.
NoArtboard == Instance(NoId, Undefined, NoId, << >>)

Event(ev, id, elapsed, states) ==
    [ev |-> ev, id |-> id, elapsed |-> elapsed, states |-> states]
Logged(s, ev, id) == [s EXCEPT !.log = Append(@, Event(ev, id, 0, << >>))]

\* The instances the object refers to.
Held(s) == Range(s.stateMachines) \cup Range(s.animations)
               \cup (IF s.artboard.id # NoId THEN {s.artboard} ELSE {})

\* The instance of this identity is not released.  An instance the object no
\* longer refers to was released when it was dropped.
Live(s, id) == \E o \in Held(s) : o.id = id /\ o.deletes = 0

\* An instance that may be used: it is not released, nor is the artboard it is
\* bound to.
Usable(s, o) ==
    /\ o.deletes = 0
    /\ o.ab # NoId => Live(s, o.ab)

\* new rive.X(description, artboard) / file.artboardByName: a new native instance.
New(s, name, ab, vals) ==
    [ s |-> [s EXCEPT !.created = @ + 1,
                      !.log = Append(@, Event("new", s.created + 1, 0, << name >>))],
      instance |-> Instance(s.created + 1, name, ab, vals) ]

\* instance.delete(): the release of a native instance.
DeleteEvent(o) == Event("delete", o.id, 0, << o.name >>)
Deleted(o) == [o EXCEPT !.deletes = IF @ < 2 THEN @ + 1 ELSE @, !.vals = << >>]

\* The inputs of a new instance of a state machine, at their defaults.
FreshInputs(machine) ==
    [i \in DOMAIN InputsOf(machine) |-> DefaultValue(InputsOf(machine)[i].kind)]

\* A constructor called with the description a lookup returned.  With a
\* description it builds the instance; with null it dereferences a null
\* description: it throws, or it builds an instance of no machine, which has no
\* inputs and reports no name of the file.
Construct(s, type, description) ==
    IF description # Undefined
    THEN New(s, description, s.artboard.id,
             IF type = "sm" THEN FreshInputs(description) ELSE << >>)
    ELSE IF s.oracle.ctor = "throw"
         THEN [s |-> [s EXCEPT !.thrown = TRUE], instance |-> NoArtboard]
         ELSE New(s, NoName, s.artboard.id, << >>)

\* ------------------------------------------------------------ the methods

\* The numbers of the alignment and of pointer coordinates are fractions
\* << numerator, denominator >> with a denominator that is not negative; a division
\* by zero leaves the denominator 0 (an infinity, or NaN).  Two fractions are the
\* same number when they agree multiplied crosswise.
Frac(n, d) == IF d < 0 THEN << -n, -d >> ELSE << n, d >>
Same(a, b) == a[1] * b[2] = b[1] * a[2] /\ (a[2] = 0 <=> b[2] = 0)
Num(n) == << n, 1 >>
Plus(a, b) == Frac(a[1] * b[2] + b[1] * a[2], a[2] * b[2])
Minus(a, b) == Frac(a[1] * b[2] - b[1] * a[2], a[2] * b[2])
Times(a, b) == Frac(a[1] * b[1], a[2] * b[2])
Over(a, b) == Frac(a[1] * b[2], a[2] * b[1])
Least(a, b) == IF a[1] * b[2] <= b[1] * a[2] THEN a ELSE b

\* The fit and alignment modes tried, with the factors of an alignment mode
\* along x and y (-1 left or top, 0 centre).
Fits == {"contain", "fill"}
Alignments == {"center", "topLeft"}
AlignmentFactor(alignMode) == IF alignMode = "center" THEN 0 ELSE -1

\* rive.computeAlignment(fitMode, alignMode, frame, bounds): the scales and translation
\* that place the bounds in the frame << width, height >>.
computeAlignment(fitMode, alignMode, frame, bounds) ==
    LET width == bounds.maxX - bounds.minX
        height == bounds.maxY - bounds.minY
        fillX == Frac(frame[1], width)
        fillY == Frac(frame[2], height)
        xx == CASE fitMode = "fill" -> fillX
                [] fitMode = "contain" -> Least(fillX, fillY)
                [] OTHER -> Num(1)
        yy == CASE fitMode = "fill" -> fillY
                [] fitMode = "contain" -> Least(fillX, fillY)
                [] OTHER -> Num(1)
        a == AlignmentFactor(alignMode)
        tx == Minus(Frac(frame[1] * (1 + a), 2),
                    Times(xx, Frac(2 * bounds.minX + width * (1 + a), 2)))
        ty == Minus(Frac(frame[2] * (1 + a), 2),
                    Times(yy, Frac(2 * bounds.minY + height * (1 + a), 2)))
    IN  [tx |-> tx, ty |-> ty, xx |-> xx, yy |-> yy]

\* _aligned before the first computeAlignment call.
NotAligned == [fit |-> Undefined, align |-> Undefined, frame |-> << 0, 0 >>,
               bounds |-> NoId,
               tx |-> Num(0), ty |-> Num(0), xx |-> Num(0), yy |-> Num(0)]

\* _aligned as computeAlignment returns it, with the arguments it was computed
\* from.
Alignment(fitMode, alignMode, frame, id, bounds) ==
    LET r == computeAlignment(fitMode, alignMode, frame, bounds)
    IN  [fit |-> fitMode, align |-> alignMode, frame |-> frame, bounds |-> id,
         tx |-> r.tx, ty |-> r.ty, xx |-> r.xx, yy |-> r.yy]

\* updateSize(): the alignment is the engine's computeAlignment applied to the
\* fit, the alignment, the frame and the artboard's bounds; the cache keeps the
\* arguments it was computed from.
updateSize(s) ==
    IF s.artboard.id # NoId /\ s.rive /\ s.renderer
    THEN LET bounds == BoundsOf(s.artboard.name)
             width == bounds.maxX - bounds.minX
             height == bounds.maxY - bounds.minY
             frameW == IF s.maxWidth # 0 THEN s.maxWidth ELSE width
             frameH == IF s.maxHeight # 0 THEN s.maxHeight ELSE height
         IN  Logged([s EXCEPT !.aligned = Alignment(s.fit, s.align,
                                                    << frameW, frameH >>,
                                                    s.artboard.id, bounds),
                              !.canvasSize = << frameW, frameH >>],
                    "texture.update", NoId)
    ELSE s

\* loadArtboard without the release of the artboard held.
loadArtboardLeaking(s, name) ==
    LET found == IF name # Undefined THEN ByName(ArtboardNames, name)
                                     ELSE ByIndex(ArtboardNames, 0)
        s2 == IF s.file /\ s.canvas
              THEN IF found # Undefined
                   THEN LET r == New(s, found, NoId, << >>)
                        IN  [r.s EXCEPT !.artboard = r.instance]
                   ELSE [s EXCEPT !.artboard = NoArtboard]
              ELSE s
    IN  updateSize(s2)

\* loadArtboard(artboard)
loadArtboard(s, name) ==
    LET s1 == IF s.artboard.id # NoId
              THEN [s EXCEPT !.artboard = Deleted(@),
                             !.log = Append(@, DeleteEvent(s.artboard))]
              ELSE s
        found == IF name # Undefined THEN ByName(ArtboardNames, name)
                                     ELSE ByIndex(ArtboardNames, 0)
        s2 == IF s1.file /\ s1.canvas
              THEN IF found # Undefined
                   THEN LET r == New(s1, found, NoId, << >>)
                        IN  [r.s EXCEPT !.artboard = r.instance]
                   ELSE [s1 EXCEPT !.artboard = NoArtboard]
              ELSE s1
    IN  updateSize(s2)

\* The filter of unloadStateMachine / stopAnimation over one list: the instances
\* of that name are released and dropped, the others kept in order.
RECURSIVE FilterOut(_, _)
FilterOut(list, name) ==
    IF list = << >> THEN [kept |-> << >>, log |-> << >>]
    ELSE LET r == FilterOut(Tail(list), name)
         IN  IF Head(list).name = name
             THEN [kept |-> r.kept,
                   log |-> << DeleteEvent(Head(list)) >> \o r.log]
             ELSE [kept |-> << Head(list) >> \o r.kept, log |-> r.log]

\* unloadStateMachine(name)
unloadStateMachine(s, name) ==
    LET r == FilterOut(s.stateMachines, name)
    IN  [s EXCEPT !.stateMachines = r.kept, !.log = @ \o r.log]

\* stopAnimation(name)
stopAnimation(s, name) ==
    LET r == FilterOut(s.animations, name)
    IN  [s EXCEPT !.animations = r.kept, !.log = @ \o r.log]

\* initInputFields(): the registry is cleared and refilled from the active state
\* machines in list order, the inputs of each by index; a later entry of the same
\* name replaces an earlier one.  A registry entry is the input's name with the
\* field handle: the kind it was classified as (asBool, asTrigger or asNumber),
\* the instance that owns the input and the input's index.
RECURSIVE SetFields(_, _, _)
SetFields(fields, list, i) ==
    IF list = << >> THEN fields
    ELSE IF i > Len(Head(list).vals)
         THEN SetFields(fields, Tail(list), 1)
         ELSE LET input == InputsOf(Head(list).name)[i]
                  entry == [name |-> input.name, kind |-> input.kind,
                            owner |-> Head(list).id, index |-> i]
              IN  SetFields({f \in fields : f.name # input.name} \cup {entry},
                            list, i + 1)

initInputFields(s) ==
    [s EXCEPT !.inputFields = SetFields({}, s.stateMachines, 1)]

\* The body of the map of loadStateMachine for one name.
LoadOneStateMachine(s, name) ==
    LET machine == ByName(StateMachineNames, name)
        s1 == unloadStateMachine(s, name)
        r == Construct(s1, "sm", machine)
    IN  IF r.s.thrown THEN r.s
        ELSE [r.s EXCEPT !.stateMachines = Append(@, r.instance)]

RECURSIVE LoadStateMachines(_, _)
LoadStateMachines(s, names) ==
    IF names = << >> \/ s.thrown THEN s
    ELSE LoadStateMachines(LoadOneStateMachine(s, Head(names)), Tail(names))

\* An argument of loadStateMachine / playAnimation: a string, or an array of
\* strings (the default, when it is omitted, is the empty array).
Str(name) == [isString |-> TRUE, names |-> << name >>]
Arr(names) == [isString |-> FALSE, names |-> names]

\* loadStateMachine(machines = [])
loadStateMachine(s, machines) ==
    IF s.artboard.id = NoId \/ ~s.rive THEN s
    ELSE LET defaultMachine == ByIndex(StateMachineNames, 0)
             names == IF machines.isString THEN machines.names
                      ELSE IF Len(machines.names) = 0
                           THEN IF defaultMachine # Undefined
                                THEN << defaultMachine >> ELSE << >>
                           ELSE machines.names
             s1 == LoadStateMachines(s, names)
         IN  IF s1.thrown THEN s1 ELSE initInputFields(s1)

\* The body of the map of playAnimation for one name.  With no artboard the
\* lookup is a property access on undefined: a TypeError.
PlayOneAnimation(s, name) ==
    IF s.artboard.id = NoId THEN [s EXCEPT !.thrown = TRUE]
    ELSE LET animation == ByName(AnimationNames, name)
             s1 == stopAnimation(s, name)
             r == Construct(s1, "anim", animation)
         IN  IF r.s.thrown THEN r.s
             ELSE [r.s EXCEPT !.animations = Append(@, r.instance)]

RECURSIVE PlayAnimations(_, _)
PlayAnimations(s, names) ==
    IF names = << >> \/ s.thrown THEN s
    ELSE PlayAnimations(PlayOneAnimation(s, Head(names)), Tail(names))

\* playAnimation with the default animation chosen whether or not a state
\* machine is active.
playAnimationAlwaysDefault(s, anims) ==
    IF s.artboard.id = NoId /\ ~s.rive THEN s
    ELSE IF anims.isString THEN PlayAnimations(s, anims.names)
    ELSE IF Len(anims.names) = 0
         THEN IF s.artboard.id = NoId THEN [s EXCEPT !.thrown = TRUE]
              ELSE LET defaultAnimation == ByIndex(AnimationNames, 0)
                   IN  PlayAnimations(s, IF defaultAnimation # Undefined
                                         THEN << defaultAnimation >> ELSE << >>)
    ELSE PlayAnimations(s, anims.names)

\* playAnimation(animations = [])
playAnimation(s, anims) ==
    IF s.artboard.id = NoId /\ ~s.rive THEN s
    ELSE IF anims.isString THEN PlayAnimations(s, anims.names)
    ELSE IF Len(anims.names) = 0 /\ Len(s.stateMachines) = 0
         THEN IF s.artboard.id = NoId THEN [s EXCEPT !.thrown = TRUE]
              ELSE LET defaultAnimation == ByIndex(AnimationNames, 0)
                   IN  PlayAnimations(s, IF defaultAnimation # Undefined
                                         THEN << defaultAnimation >> ELSE << >>)
    ELSE PlayAnimations(s, anims.names)

\* ------------------------------------------------------- the render loop

\* rive.requestAnimationFrame(renderLoop): the request is pending until the host's
\* next frame.  A handle of the host is never handed out twice; a handle is
\* compared only with the pending ones (by cancelAnimationFrame), so the model
\* hands out the least one that is neither pending nor still stored in _animFrame.
FreeHandles(s) == (1 .. MaxHandles) \ (s.pending \cup {s.animFrame})
requestAnimationFrame(s) ==
    IF FreeHandles(s) = {} THEN [s |-> [s EXCEPT !.overflow = TRUE], handle |-> 0]
    ELSE LET h == CHOOSE x \in FreeHandles(s) : \A y \in FreeHandles(s) : x <= y
         IN  [s |-> [s EXCEPT !.pending = @ \cup {h}], handle |-> h]

\* rive.cancelAnimationFrame(handle)
cancelAnimationFrame(s, h) ==
    [s EXCEPT !.pending = @ \ {h},
              !.log = Append(@, Event("cancelAnimationFrame", h, 0, << >>))]

\* enable()
enable(s) ==
    LET s1 == [s EXCEPT !.enabled = TRUE]
    IN  IF s1.animFrame = 0 /\ s1.rive
        THEN LET r == requestAnimationFrame(s1)
             IN  [r.s EXCEPT !.animFrame = r.handle]
        ELSE s1

\* disable()
disable(s) ==
    LET s1 == Logged([s EXCEPT !.enabled = FALSE], "disable", NoId)
    IN  IF s1.animFrame # 0 /\ s1.rive
        THEN [cancelAnimationFrame(s1, s1.animFrame) EXCEPT !.animFrame = 0]
        ELSE s1

\* The state names a machine reports after an advance: stateChangedNameByIndex(i)
\* for i below stateChangedCount().
ChangedNames(s, m) ==
    [i \in 1 .. s.oracle.changed[m.id] |-> << m.name, i - 1 >>]

\* this.onStateChange(states): the host's callback, which may call back into the
\* sprite.
onStateChange(s) ==
    CASE s.oracle.callback = "disable" -> disable(s)
      [] s.oracle.callback = "unloadStateMachine" ->
            unloadStateMachine(s, s.oracle.name)
      [] s.oracle.callback = "loadStateMachine" ->
            loadStateMachine(s, Str(s.oracle.name))
      [] OTHER -> s

\* The body of the map of advanceStateMachines for one machine: advance,
\* stateChangedCount and stateChangedNameByIndex are called on the instance, then
\* the callback.
AdvanceOneStateMachine(s, m, elapsed) ==
    LET states == ChangedNames(s, m)
        s1 == [s EXCEPT !.log = Append(@, Event("sm.advance", m.id, elapsed, states))]
    IN  IF s1.onStateChange /\ s1.oracle.changed[m.id] # 0 /\ Len(states) # 0
        THEN onStateChange([s1 EXCEPT !.log = Append(@, Event("onStateChange", m.id,
                                                             elapsed, states))])
        ELSE s1

\* advanceStateMachines(elapsed): the map runs over the list as it was when the
\* map began.
RECURSIVE AdvanceEach(_, _, _)
AdvanceEach(s, list, elapsed) ==
    IF list = << >> THEN s
    ELSE AdvanceEach(AdvanceOneStateMachine(s, Head(list), elapsed), Tail(list),
                     elapsed)

advanceStateMachines(s, elapsed) == AdvanceEach(s, s.stateMachines, elapsed)

\* advanceAnimations(elapsed)
RECURSIVE AdvanceEachAnimation(_, _, _)
AdvanceEachAnimation(s, list, elapsed) ==
    IF list = << >> THEN s
    ELSE AdvanceEachAnimation(
            [s EXCEPT !.log = @ \o
                << Event("anim.advance", Head(list).id, elapsed, << >>),
                   Event("anim.apply", Head(list).id, elapsed, << >>) >>],
            Tail(list), elapsed)

advanceAnimations(s, elapsed) == AdvanceEachAnimation(s, s.animations, elapsed)

\* renderLoop without the request for the next frame.
renderLoopOnce(s, time) ==
    LET s1 == IF s.lastTime = 0 THEN [s EXCEPT !.lastTime = time] ELSE s
        elapsedTime == time - s1.lastTime
        s2 == [s1 EXCEPT !.lastTime = time,
                         !.log = Append(@, Event("renderLoop", NoId, elapsedTime, << >>))]
    IN  IF s2.artboard.id # NoId /\ s2.renderer
        THEN LET s4 == advanceAnimations(advanceStateMachines(s2, elapsedTime),
                                         elapsedTime)
             IN  [s4 EXCEPT !.log = @ \o
                    << Event("artboard.advance", s4.artboard.id, elapsedTime, << >>),
                       Event("renderer.clear", NoId, elapsedTime, << >>),
                       Event("artboard.draw", s4.artboard.id, elapsedTime, << >>),
                       Event("renderer.flush", NoId, elapsedTime, << >>),
                       Event("texture.update", NoId, elapsedTime, << >>) >>]
        ELSE s2

\* renderLoop with the animations advanced before the state machines and the
\* artboard advanced after the draw.
renderLoopDrawFirst(s, time) ==
    LET s1 == IF s.lastTime = 0 THEN [s EXCEPT !.lastTime = time] ELSE s
        elapsedTime == time - s1.lastTime
        s2 == [s1 EXCEPT !.lastTime = time,
                         !.log = Append(@, Event("renderLoop", NoId, elapsedTime, << >>))]
        s3 == IF s2.artboard.id # NoId /\ s2.renderer
              THEN LET s4 == advanceStateMachines(advanceAnimations(s2, elapsedTime),
                                                  elapsedTime)
                   IN  [s4 EXCEPT !.log = @ \o
                          << Event("renderer.clear", NoId, elapsedTime, << >>),
                             Event("artboard.draw", s4.artboard.id, elapsedTime, << >>),
                             Event("renderer.flush", NoId, elapsedTime, << >>),
                             Event("artboard.advance", s4.artboard.id, elapsedTime, << >>),
                             Event("texture.update", NoId, elapsedTime, << >>) >>]
              ELSE s2
    IN  IF s3.rive /\ s3.enabled THEN requestAnimationFrame(s3).s ELSE s3

\* renderLoop(time).  The elapsed time is kept in milliseconds: the code's
\* elapsedTime, in seconds, is this number divided by 1000.
renderLoop(s, time) ==
    LET s1 == IF s.lastTime = 0 THEN [s EXCEPT !.lastTime = time] ELSE s
        elapsedTime == time - s1.lastTime
        s2 == [s1 EXCEPT !.lastTime = time,
                         !.log = Append(@, Event("renderLoop", NoId, elapsedTime, << >>))]
        s3 == IF s2.artboard.id # NoId /\ s2.renderer
              THEN LET s4 == advanceAnimations(advanceStateMachines(s2, elapsedTime),
                                               elapsedTime)
                   IN  [s4 EXCEPT !.log = @ \o
                          << Event("artboard.advance", s4.artboard.id, elapsedTime, << >>),
                             Event("renderer.clear", NoId, elapsedTime, << >>),
                             Event("artboard.draw", s4.artboard.id, elapsedTime, << >>),
                             Event("renderer.flush", NoId, elapsedTime, << >>),
                             Event("texture.update", NoId, elapsedTime, << >>) >>]
              ELSE s2
    IN  IF s3.rive /\ s3.enabled THEN requestAnimationFrame(s3).s ELSE s3

\* One frame of the host: every request pending when the frame begins is taken
\* off the list and its callback run with the frame's timestamp.
RECURSIVE RunCallbacks(_, _, _)
RunCallbacks(s, n, time) ==
    IF n = 0 THEN s ELSE RunCallbacks(renderLoop(s, time), n - 1, time)

Frame(s, time) ==
    RunCallbacks([s EXCEPT !.pending = {}], Cardinality(s.pending), time)

\* ------------------------------------------------------ pointer events

\* translatePoint with the vertical scale used for both coordinates.
translatePointOneScale(s, local) ==
    LET a == IF s.aligned # NotAligned THEN s.aligned
             ELSE [tx |-> Num(0), ty |-> Num(0), xx |-> Num(1), yy |-> Num(1)]
    IN  << Over(Minus(local[1], a.tx), a.yy), Over(Minus(local[2], a.ty), a.yy) >>

\* translatePoint(global), from the point toLocal(global) gives.
translatePoint(s, local) ==
    LET a == IF s.aligned # NotAligned THEN s.aligned
             ELSE [tx |-> Num(0), ty |-> Num(0), xx |-> Num(1), yy |-> Num(1)]
    IN  << Over(Minus(local[1], a.tx), a.xx), Over(Minus(local[2], a.ty), a.yy) >>

\* The handlers initEvents attaches: onpointerdown, onpointerup, onpointermove.
\* The point is passed to every state machine of the list.
RECURSIVE PointerEach(_, _, _, _)
PointerEach(s, list, kind, point) ==
    IF list = << >> THEN s
    ELSE PointerEach([s EXCEPT !.log = Append(@, Event(kind, Head(list).id, 0, point))],
                     Tail(list), kind, point)

\* The handlers with the point passed on as toLocal gives it.
onpointerUntranslated(s, kind, local) ==
    PointerEach(s, s.stateMachines, kind, local)

onpointer(s, kind, local) ==
    PointerEach(s, s.stateMachines, kind, translatePoint(s, local))

\* ------------------------------------------------------ the input fields

\* The registry's entry for a name: a set with the entry, or the empty set.
Field(s, name) == {f \in s.inputFields : f.name = name}

\* The live instance that owns a field handle: a set with it, or the empty set
\* when the owner has been released.
Owner(s, f) == {m \in Range(s.stateMachines) : m.id = f.owner /\ m.deletes = 0}

\* input.type of a field handle: the input's kind while the owning instance is
\* alive; a read of released memory afterwards.
TypeOf(s, f) ==
    IF Owner(s, f) # {}
    THEN InputsOf((CHOOSE m \in Owner(s, f) : TRUE).name)[f.index].kind
    ELSE s.oracle.kind

\* input.value of a field handle.
ValueOf(s, f) ==
    IF Owner(s, f) # {}
    THEN (CHOOSE m \in Owner(s, f) : TRUE).vals[f.index]
    ELSE s.oracle.val

\* getInputValue(name)
getInputValue(s, name) ==
    IF Field(s, name) = {} THEN [s EXCEPT !.result = Undefined]
    ELSE LET input == CHOOSE f \in Field(s, name) : TRUE
         IN  [s EXCEPT !.result = ValueOf(s, input),
                       !.log = Append(@, Event("input.value", input.owner, 0,
                                               << name >>))]

\* input.value = value through a field handle.  A write through the handle of a
\* released instance goes to released memory; no live field holds it.
Written(list, f, value) ==
    [i \in DOMAIN list |->
        IF list[i].id = f.owner /\ list[i].deletes = 0
        THEN [list[i] EXCEPT !.vals[f.index] = value]
        ELSE list[i]]

\* setInputValue(name, value)
setInputValue(s, name, value) ==
    IF Field(s, name) = {} THEN s
    ELSE LET input == CHOOSE f \in Field(s, name) : TRUE
         IN  IF TypeOf(s, input) # (IF s.rive THEN "trigger" ELSE Undefined)
             THEN [s EXCEPT !.stateMachines = Written(@, input, value),
                            !.log = Append(@, Event("input.value=", input.owner, 0,
                                                    << name, value >>))]
             ELSE s

\* fireTrigger(name)
fireTrigger(s, name) ==
    IF Field(s, name) = {} THEN s
    ELSE LET input == CHOOSE f \in Field(s, name) : TRUE
         IN  IF TypeOf(s, input) = (IF s.rive THEN "trigger" ELSE Undefined)
             THEN [s EXCEPT !.log = Append(@, Event("input.fire", input.owner, 0,
                                                    << name >>))]
             ELSE s

\* ------------------------------------------------------------ destruction

\* list.map((x) => x.delete())
DeleteEach(list) == [i \in DOMAIN list |-> Deleted(list[i])]
DeleteLog(list) == [i \in DOMAIN list |-> DeleteEvent(list[i])]

\* destroy() with the file handle released before the instances and the frame
\* loop disabled last.
destroyFileFirst(s) ==
    LET s1 == Logged(s, "super.destroy", NoId)
        s2 == IF s1.file
              THEN Logged([s1 EXCEPT !.fileDeletes = IF @ < 2 THEN @ + 1 ELSE @],
                          "file.delete", NoId)
              ELSE s1
        s3 == [s2 EXCEPT !.stateMachines = DeleteEach(@),
                         !.animations = DeleteEach(@),
                         !.log = @ \o DeleteLog(s2.stateMachines)
                                   \o DeleteLog(s2.animations)]
        s4 == IF s3.artboard.id # NoId
              THEN [s3 EXCEPT !.artboard = Deleted(@),
                              !.log = Append(@, DeleteEvent(s3.artboard))]
              ELSE s3
        s5 == IF s4.renderer
              THEN Logged([s4 EXCEPT !.rendererDeletes = IF @ < 2 THEN @ + 1 ELSE @],
                          "renderer.delete", NoId)
              ELSE s4
    IN  disable(s5)

\* destroy()
destroy(s) ==
    LET s1 == disable(Logged(s, "super.destroy", NoId))
        s2 == [s1 EXCEPT !.stateMachines = DeleteEach(@),
                         !.log = @ \o DeleteLog(s1.stateMachines)]
        s3 == [s2 EXCEPT !.animations = DeleteEach(@),
                         !.log = @ \o DeleteLog(s2.animations)]
        s4 == IF s3.artboard.id # NoId
              THEN [s3 EXCEPT !.artboard = Deleted(@),
                              !.log = Append(@, DeleteEvent(s3.artboard))]
              ELSE s3
        s5 == IF s4.renderer
              THEN Logged([s4 EXCEPT !.rendererDeletes = IF @ < 2 THEN @ + 1 ELSE @],
                          "renderer.delete", NoId)
              ELSE s4
    IN  IF s5.file
        THEN Logged([s5 EXCEPT !.fileDeletes = IF @ < 2 THEN @ + 1 ELSE @],
                    "file.delete", NoId)
        ELSE s5

\* ----------------------------------------------------------- construction

\* The continuation of the constructor, run when initRive has completed.  A
\* throw ends it there: the remaining calls are not made.
constructorThen(s, opts) ==
    LET s1 == loadArtboard(s, opts.artboard)
        s2 == IF s1.thrown THEN s1 ELSE loadStateMachine(s1, opts.stateMachine)
        s3 == IF s2.thrown THEN s2 ELSE playAnimation(s2, opts.animation)
        s4 == IF s3.thrown THEN s3
              ELSE IF opts.autoPlay THEN enable(s3)
              ELSE IF s3.rive THEN requestAnimationFrame(s3).s ELSE s3
    IN  IF s4.thrown THEN s4 ELSE Logged(s4, "onReady", NoId)

\* The options a sprite is constructed with.
OptionSets ==
    [ autoPlay : BOOLEAN, artboard : {Undefined, MissingName},
      stateMachine : {Arr(<< >>), Arr(StateMachineNames)},
      animation : {Arr(<< >>)},
      onStateChange : BOOLEAN, interactive : BOOLEAN ]

\* The state the constructor leaves (lines 80-234): every field at its default,
\* the asynchronous initialisation started.
Init ==
    /\ options \in OptionSets
    /\ pc = "loading"
    /\ destroyed = FALSE
    /\ rive = FALSE /\ file = FALSE /\ canvas = FALSE /\ renderer = FALSE
    /\ artboard = NoArtboard
    /\ animations = << >> /\ stateMachines = << >>
    /\ inputFields = {}
    /\ fit = "contain" /\ align = "center"
    /\ maxWidth = 0 /\ maxHeight = 0
    /\ aligned = NotAligned
    /\ canvasSize = << 0, 0 >>
    /\ enabled = FALSE /\ animFrame = 0 /\ lastTime = 0
    /\ created = 0
    /\ fileDeletes = 0 /\ rendererDeletes = 0
    /\ pending = {}
    /\ now = 0
    /\ log = << >>
    /\ call = [op |-> "constructor", arg |-> << >>]
    /\ ret = Undefined
    /\ hist = [disabled |-> FALSE, resuming |-> FALSE, early |-> "none"]

\* ---------------------------------------------------------------- actions

\* The handler named op, with arguments arg, has taken the object to r.
Commit(r, op, arg) ==
    /\ ~r.overflow
    /\ r.created <= MaxObjects
    /\ rive' = r.rive /\ file' = r.file /\ canvas' = r.canvas
    /\ renderer' = r.renderer
    /\ artboard' = r.artboard
    /\ animations' = r.animations /\ stateMachines' = r.stateMachines
    /\ inputFields' = r.inputFields
    /\ fit' = r.fit /\ align' = r.align
    /\ maxWidth' = r.maxWidth /\ maxHeight' = r.maxHeight
    /\ aligned' = r.aligned
    /\ canvasSize' = r.canvasSize
    /\ enabled' = r.enabled /\ animFrame' = r.animFrame /\ lastTime' = r.lastTime
    /\ created' = r.created
    /\ fileDeletes' = r.fileDeletes /\ rendererDeletes' = r.rendererDeletes
    /\ pending' = r.pending
    /\ log' = r.log
    /\ call' = [op |-> op, arg |-> arg]
    /\ ret' = IF r.thrown THEN "throw" ELSE r.result
    /\ hist' = CASE op = "disable" ->
                        [disabled |-> TRUE, resuming |-> FALSE,
                         early |-> IF pc # "ready" THEN op ELSE "none"]
                 [] op = "enable" ->
                        [disabled |-> FALSE, resuming |-> hist.disabled,
                         early |-> IF pc # "ready" THEN op ELSE "none"]
                 [] op = "frame" /\ (\E i \in DOMAIN r.log : r.log[i].ev = "disable") ->
                        [hist EXCEPT !.disabled = TRUE, !.resuming = FALSE]
                 [] op = "frame" /\ r.log # << >> ->
                        [hist EXCEPT !.resuming = FALSE]
                 [] op = "initRive" ->
                        [disabled |-> FALSE, resuming |-> FALSE,
                         early |-> IF arg = << "file" >> THEN "none" ELSE hist.early]
                 [] OTHER -> hist
    /\ UNCHANGED options

\* What the engine may do with a null description: throw, or build an instance
\* that reports no name of the file.  Chosen only where a name is looked up that
\* the artboard does not have.
CtorOracles(arg, names) ==
    IF \A i \in DOMAIN arg.names : arg.names[i] \in Range(names)
    THEN {NoOracle}
    ELSE {[NoOracle EXCEPT !.ctor = c] : c \in {"throw", "build"}}
\* What a read through the handle of a released instance may give.  Chosen only
\* where the registry's entry for the name belongs to a released instance.
Dangling(name) ==
    \E f \in inputFields : f.name = name /\ Owner(This(NoOracle), f) = {}
KindOracles(name) ==
    IF Dangling(name) THEN {[NoOracle EXCEPT !.kind = k] : k \in Kinds}
    ELSE {NoOracle}
ValueOracles(name) ==
    IF Dangling(name)
    THEN {[NoOracle EXCEPT !.val = v] : v \in Values \cup {Undefined}}
    ELSE {NoOracle}

\* The arguments tried for loadStateMachine / playAnimation over a list of names:
\* every name and a missing one as a string; the empty array; an array with a
\* name twice, with two names, and with a name and a missing one.
NameArgs(names) ==
    {Str(n) : n \in Range(names) \cup {MissingName}}
        \cup {Arr(<< >>), Arr(<< names[1], names[1] >>), Arr(<< names[1], names[2] >>),
              Arr(<< names[1], MissingName >>)}

\* initRive, line 242: the engine module has loaded.
InitEngine ==
    /\ pc = "loading"
    /\ pc' = "engine"
    /\ Commit([This(NoOracle) EXCEPT !.rive = TRUE], "initRive", << "engine" >>)
    /\ UNCHANGED << destroyed, now >>

\* initRive, lines 243-245: the file is parsed, the canvas and renderer made;
\* and the constructor's continuation, lines 223-233, which runs as initRive
\* completes, before the host runs any other task.
InitFile ==
    /\ pc = "engine"
    /\ pc' = "ready"
    /\ \E o \in CtorOracles(options.stateMachine, StateMachineNames)
                  \cup CtorOracles(options.animation, AnimationNames) :
          Commit(constructorThen([This(o) EXCEPT !.file = TRUE, !.canvas = TRUE,
                                                 !.renderer = TRUE,
                                                 !.canvasSize = << 100, 100 >>],
                                 options),
                 "initRive", << "file" >>)
    /\ UNCHANGED << destroyed, now >>

Enable ==
    /\ ~destroyed
    /\ Commit(enable(This(NoOracle)), "enable", << >>)
    /\ UNCHANGED << pc, destroyed, now >>

Disable ==
    /\ ~destroyed
    /\ Commit(disable(This(NoOracle)), "disable", << >>)
    /\ UNCHANGED << pc, destroyed, now >>

LoadArtboard ==
    /\ ~destroyed
    /\ \E name \in {Undefined, MissingName} \cup Range(ArtboardNames) :
          Commit(loadArtboard(This(NoOracle), name), "loadArtboard", << name >>)
    /\ UNCHANGED << pc, destroyed, now >>

LoadStateMachine ==
    /\ ~destroyed
    /\ \E machines \in NameArgs(StateMachineNames) :
       \E o \in CtorOracles(machines, StateMachineNames) :
          Commit(loadStateMachine(This(o), machines), "loadStateMachine", machines.names)
    /\ UNCHANGED << pc, destroyed, now >>

UnloadStateMachine ==
    /\ ~destroyed
    /\ \E name \in Range(StateMachineNames) \cup {MissingName} :
          Commit(unloadStateMachine(This(NoOracle), name), "unloadStateMachine",
                 << name >>)
    /\ UNCHANGED << pc, destroyed, now >>

PlayAnimation ==
    /\ ~destroyed
    /\ \E anims \in NameArgs(AnimationNames) :
       \E o \in CtorOracles(anims, AnimationNames) :
          Commit(playAnimation(This(o), anims), "playAnimation", anims.names)
    /\ UNCHANGED << pc, destroyed, now >>

StopAnimation ==
    /\ ~destroyed
    /\ \E name \in Range(AnimationNames) \cup {MissingName} :
          Commit(stopAnimation(This(NoOracle), name), "stopAnimation", << name >>)
    /\ UNCHANGED << pc, destroyed, now >>

GetInputValue ==
    /\ ~destroyed
    /\ \E name \in FieldNames :
       \E o \in ValueOracles(name) :
          Commit(getInputValue(This(o), name), "getInputValue", << name >>)
    /\ UNCHANGED << pc, destroyed, now >>

\* The value written is one of the field's kind (a boolean for a boolean input, a
\* number for a numeric one); for a name that is unknown, a trigger or a field of
\* a released instance, any value.
SetInputValue ==
    /\ ~destroyed
    /\ \E name \in FieldNames, value \in Values :
       \E o \in KindOracles(name) :
          /\ \A f \in Field(This(o), name) :
                f.kind # "trigger" => value \in ValuesOf(f.kind)
          /\ Commit(setInputValue(This(o), name, value), "setInputValue",
                    << name, value >>)
    /\ UNCHANGED << pc, destroyed, now >>

FireTrigger ==
    /\ ~destroyed
    /\ \E name \in FieldNames :
       \E o \in KindOracles(name) :
          Commit(fireTrigger(This(o), name), "fireTrigger", << name >>)
    /\ UNCHANGED << pc, destroyed, now >>

Destroy ==
    /\ ~destroyed
    /\ destroyed' = TRUE
    /\ Commit(destroy(This(NoOracle)), "destroy", << >>)
    /\ UNCHANGED << pc, now >>

\* One frame of the host, one millisecond after the last.
FrameTick ==
    /\ now < MaxTime
    /\ now' = now + 1
    /\ \E changed \in [{m.id : m \in Range(stateMachines)} -> 0 .. MaxChanged] :
          Commit(Frame(This([NoOracle EXCEPT !.changed = changed]), now + 1),
                 "frame", << >>)
    /\ UNCHANGED << pc, destroyed >>

\* One frame of the host in which the onStateChange callback is called and
\* calls disable().
FrameTickDisable ==
    /\ now < MaxTime
    /\ now' = now + 1
    /\ options.onStateChange /\ pending # {}
    /\ artboard.id # NoId /\ renderer
    /\ \E changed \in [{m.id : m \in Range(stateMachines)} -> 0 .. MaxChanged] :
          /\ \E m \in Range(stateMachines) : changed[m.id] # 0
          /\ Commit(Frame(This([NoOracle EXCEPT !.changed = changed,
                                                !.callback = "disable"]), now + 1),
                    "frame", << >>)
    /\ UNCHANGED << pc, destroyed >>

\* One frame of the host in which the onStateChange callback is called and
\* calls unloadStateMachine or loadStateMachine with the name of a state machine.
Reentries == {"unloadStateMachine", "loadStateMachine"}
FrameTickReenter ==
    /\ now < MaxTime
    /\ now' = now + 1
    /\ options.onStateChange /\ pending # {}
    /\ artboard.id # NoId /\ renderer
    /\ \E changed \in [{m.id : m \in Range(stateMachines)} -> 0 .. MaxChanged],
          reentry \in Reentries, name \in Range(StateMachineNames) :
          /\ \E m \in Range(stateMachines) : changed[m.id] # 0
          /\ Commit(Frame(This([NoOracle EXCEPT !.changed = changed,
                                                !.callback = reentry,
                                                !.name = name]), now + 1),
                    "frame", << reentry, name >>)
    /\ UNCHANGED << pc, destroyed >>

\* An assignment to one of the public fields fit, align, maxWidth, maxHeight.
MaxWidths == {0, 4}
MaxHeights == {0, 3}
SetFit ==
    /\ ~destroyed
    /\ \E v \in Fits \ {fit} :
          Commit([This(NoOracle) EXCEPT !.fit = v], "fit=", << v >>)
    /\ UNCHANGED << pc, destroyed, now >>

SetAlign ==
    /\ ~destroyed
    /\ \E v \in Alignments \ {align} :
          Commit([This(NoOracle) EXCEPT !.align = v], "align=", << v >>)
    /\ UNCHANGED << pc, destroyed, now >>

SetMaxWidth ==
    /\ ~destroyed
    /\ \E v \in MaxWidths \ {maxWidth} :
          Commit([This(NoOracle) EXCEPT !.maxWidth = v], "maxWidth=", << v >>)
    /\ UNCHANGED << pc, destroyed, now >>

SetMaxHeight ==
    /\ ~destroyed
    /\ \E v \in MaxHeights \ {maxHeight} :
          Commit([This(NoOracle) EXCEPT !.maxHeight = v], "maxHeight=", << v >>)
    /\ UNCHANGED << pc, destroyed, now >>

UpdateSize ==
    /\ ~destroyed
    /\ Commit(updateSize(This(NoOracle)), "updateSize", << >>)
    /\ UNCHANGED << pc, destroyed, now >>

\* A pointer event of the host on the sprite, at a point of the sprite's own
\* coordinates.  Without the interactive option the sprite has no handler.
PointerKinds == {"pointerDown", "pointerUp", "pointerMove"}
LocalPoints == {<< Num(3), Num(1) >>}
Pointer ==
    /\ ~destroyed
    /\ \E kind \in PointerKinds, local \in LocalPoints :
          Commit(IF options.interactive THEN onpointer(This(NoOracle), kind, local)
                                        ELSE This(NoOracle),
                 kind, local)
    /\ UNCHANGED << pc, destroyed, now >>

Next ==
    \/ InitEngine
    \/ InitFile
    \/ Enable
    \/ Disable
    \/ LoadArtboard
    \/ LoadStateMachine
    \/ UnloadStateMachine
    \/ PlayAnimation
    \/ StopAnimation
    \/ GetInputValue
    \/ SetInputValue
    \/ FireTrigger
    \/ Destroy
    \/ FrameTick
    \/ FrameTickDisable
    \/ FrameTickReenter
    \/ SetFit
    \/ SetAlign
    \/ SetMaxWidth
    \/ SetMaxHeight
    \/ UpdateSize
    \/ Pointer

Spec == Init /\ [][Next]_vars

\* The instance set alone: initialisation, the loading and unloading of
\* artboards, state machines and animations, and destruction.
NextInstances ==
    \/ InitEngine
    \/ InitFile
    \/ LoadArtboard
    \/ LoadStateMachine
    \/ UnloadStateMachine
    \/ PlayAnimation
    \/ StopAnimation
    \/ Destroy

InitInstances ==
    /\ Init
    /\ ~options.autoPlay /\ options.onStateChange
    /\ options.stateMachine = Arr(<< >>) /\ ~options.interactive

SpecInstances == InitInstances /\ [][NextInstances]_vars

\* The frame driver alone: initialisation, enable, disable and the host's frames.
NextLoop ==
    \/ InitEngine
    \/ InitFile
    \/ Enable
    \/ Disable
    \/ FrameTick

InitLoop == Init /\ options.artboard = Undefined /\ ~options.interactive

SpecLoop == InitLoop /\ [][NextLoop]_vars

\* The input fields alone: initialisation, the loading and unloading of state
\* machines, and the reads, writes and triggers of the registry's fields.
NextInputs ==
    \/ InitEngine
    \/ InitFile
    \/ UnloadStateMachine
    \/ LoadStateMachine
    \/ GetInputValue
    \/ SetInputValue
    \/ FireTrigger

InitInputs ==
    /\ Init
    /\ ~options.autoPlay /\ options.onStateChange
    /\ options.artboard = Undefined /\ ~options.interactive

SpecInputs == InitInputs /\ [][NextInputs]_vars

\* Destruction: initialisation, the operations that fill the instance lists and
\* start or stop the frame loop, and destroy().
NextDestroy ==
    \/ InitEngine
    \/ InitFile
    \/ Enable
    \/ Disable
    \/ LoadArtboard
    \/ PlayAnimation
    \/ Destroy

InitDestroy ==
    /\ Init
    /\ options.onStateChange /\ ~options.interactive

SpecDestroy == InitDestroy /\ [][NextDestroy]_vars

\* Sizing: initialisation, assignments to fit and maxWidth, updateSize,
\* loadArtboard, pointer events and frames.
NextSize ==
    \/ InitEngine
    \/ InitFile
    \/ SetFit
    \/ SetMaxWidth
    \/ UpdateSize
    \/ LoadArtboard
    \/ Pointer
    \/ FrameTick

InitSize ==
    /\ Init
    /\ ~options.autoPlay /\ options.onStateChange /\ options.interactive
    /\ options.artboard = Undefined
    /\ options.stateMachine = Arr(<< >>)

SpecSize == InitSize /\ [][NextSize]_vars

\* The animations alone: initialisation, the unloading of state machines, and
\* the playing and stopping of animations.
NextAnimations ==
    \/ InitEngine
    \/ InitFile
    \/ UnloadStateMachine
    \/ PlayAnimation
    \/ StopAnimation

SpecAnimations == InitInstances /\ [][NextAnimations]_vars

\* Pointer events: initialisation with or without the interactive option, the
\* unloading of state machines, assignments to fit, align and maxHeight,
\* updateSize, and pointer events.
NextPointer ==
    \/ InitEngine
    \/ InitFile
    \/ UnloadStateMachine
    \/ SetFit
    \/ SetAlign
    \/ SetMaxHeight
    \/ UpdateSize
    \/ Pointer

InitPointer ==
    /\ Init
    /\ ~options.autoPlay /\ options.onStateChange
    /\ options.artboard = Undefined

SpecPointer == InitPointer /\ [][NextPointer]_vars

\* translatePoint as a function of the cached alignment and the point: the
\* sprite is initialised, the cache holds any alignment with scales that are
\* not zero, or none, and translatePoint is applied to any point.
Scales == {Num(1), Num(2), Frac(1, 2), Num(-1)}
Translations == {Num(0), Num(1), Frac(-3, 2)}
Coordinates == {Num(0), Num(3), Frac(5, 2)}
AlignmentResults ==
    {[fit |-> "contain", align |-> "center", frame |-> << 2, 1 >>, bounds |-> 1,
      tx |-> tx, ty |-> ty, xx |-> xx, yy |-> yy] :
        tx \in Translations, ty \in Translations, xx \in Scales, yy \in Scales}

TranslatePoint ==
    /\ ~destroyed
    /\ \E x \in Coordinates, y \in Coordinates :
          Commit([This(NoOracle) EXCEPT
                     !.result = translatePoint(This(NoOracle), << x, y >>)],
                 "translatePoint", << x, y >>)
    /\ UNCHANGED << pc, destroyed, now >>

InitTranslate ==
    /\ options \in OptionSets
    /\ ~options.autoPlay /\ options.onStateChange /\ options.interactive
    /\ options.artboard = Undefined /\ options.stateMachine = Arr(<< >>)
    /\ pc = "ready"
    /\ destroyed = FALSE
    /\ rive = TRUE /\ file = TRUE /\ canvas = TRUE /\ renderer = TRUE
    /\ artboard = Instance(1, ArtboardNames[1], NoId, << >>)
    /\ animations = << >> /\ stateMachines = << >>
    /\ inputFields = {}
    /\ fit = "contain" /\ align = "center"
    /\ maxWidth = 0 /\ maxHeight = 0
    /\ aligned \in AlignmentResults \cup {NotAligned}
    /\ canvasSize = << 2, 1 >>
    /\ enabled = FALSE /\ animFrame = 0 /\ lastTime = 0
    /\ created = 2
    /\ fileDeletes = 0 /\ rendererDeletes = 0
    /\ pending = {}
    /\ now = 0
    /\ log = << >>
    /\ call = [op |-> "unloadStateMachine", arg |-> << StateMachineNames[1] >>]
    /\ ret = Undefined
    /\ hist = [disabled |-> FALSE, resuming |-> FALSE, early |-> "none"]

SpecTranslate == InitTranslate /\ [][TranslatePoint]_vars

\* The frame step with animations: initialisation with the loop running, the
\* playing of animations, and frames.
NextStep ==
    \/ InitEngine
    \/ InitFile
    \/ PlayAnimation
    \/ FrameTick

InitStep ==
    /\ Init
    /\ options.autoPlay /\ options.onStateChange /\ ~options.interactive
    /\ options.artboard = Undefined

SpecStep == InitStep /\ [][NextStep]_vars

\* The render loop with a callback that disables it: initialisation, enable,
\* disable, and frames with and without a callback that calls disable().
NextCallback ==
    \/ InitEngine
    \/ InitFile
    \/ Enable
    \/ Disable
    \/ FrameTick
    \/ FrameTickDisable

InitCallback ==
    /\ Init
    /\ options.onStateChange /\ ~options.interactive
    /\ options.artboard = Undefined

SpecCallback == InitCallback /\ [][NextCallback]_vars

\* The state-change callback calling back into the list of state machines:
\* initialisation with the loop running, the loading of state machines, and
\* frames with and without a callback that unloads or reloads a state machine.
NextReenter ==
    \/ InitEngine
    \/ InitFile
    \/ LoadStateMachine
    \/ FrameTick
    \/ FrameTickReenter

InitReenter ==
    /\ Init
    /\ options.autoPlay /\ options.onStateChange /\ ~options.interactive
    /\ options.artboard = Undefined

SpecReenter == InitReenter /\ [][NextReenter]_vars

\* Teardown: initialisation, enable, disable, destroy() at any moment, and the
\* host's frames before and after it.
NextTeardown ==
    \/ InitEngine
    \/ InitFile
    \/ Enable
    \/ Disable
    \/ Destroy
    \/ FrameTick

InitTeardown ==
    /\ Init
    /\ options.onStateChange /\ ~options.interactive
    /\ options.artboard = Undefined

SpecTeardown == InitTeardown /\ [][NextTeardown]_vars

\* The frame loop left to run: initialisation, enable, and the host's frames,
\* with neither disable() nor destroy().  The host goes on delivering frames
\* until the clock stops: FrameTick is the only action that moves the clock, so
\* a frame is a step that moves it.
NextLive ==
    \/ InitEngine
    \/ InitFile
    \/ Enable
    \/ FrameTick

Tick == now < MaxTime /\ now' = now + 1

SpecLive ==
    /\ InitLoop
    /\ [][NextLive]_vars
    /\ WF_now(Tick)

\* ------------------------------------------------ claims on the instance set

InstanceLists == Range(stateMachines) \cup Range(animations)

\* C1: when loadArtboard returns, both active lists are empty and no listed
\* instance is bound to a released artboard.
C1_LoadArtboardReleasesInstances ==
    call.op = "loadArtboard" =>
        /\ stateMachines = << >>
        /\ animations = << >>
        /\ \A o \in InstanceLists : Usable(This(NoOracle), o)

\* C5: in every state the registry is what a rebuild over the active state
\* machines produces, and every entry belongs to a live instance of the active
\* list.
C5_RegistryMatchesActiveSet ==
    /\ inputFields = SetFields({}, stateMachines, 1)
    /\ \A f \in inputFields : Owner(This(NoOracle), f) # {}

\* C6: each active list holds at most one instance per name, and within a
\* handler no instance of a name is created before the instance of that name it
\* displaces has been released.
OnePerName(list) ==
    \A i, j \in DOMAIN list : list[i].name = list[j].name => i = j
C6_OneInstancePerName ==
    /\ OnePerName(stateMachines)
    /\ OnePerName(animations)
    /\ \A i, j \in DOMAIN log :
          (i < j /\ log[i].ev = "new" /\ log[j].ev = "delete"
                 /\ log[i].states = log[j].states)
              => log[i].id = log[j].id

\* C7: loadStateMachine(name) and playAnimation(name) with a name the loaded
\* artboard does not have create and register nothing, leave the lists and the
\* registry as they were, and do not throw.
C7_MissingNameIsNoOp ==
    [][(/\ call'.op \in {"loadStateMachine", "playAnimation"}
        /\ call'.arg = << MissingName >>
        /\ artboard.id # NoId /\ rive)
       => (/\ stateMachines' = stateMachines
           /\ animations' = animations
           /\ inputFields' = inputFields
           /\ created' = created
           /\ ret' # "throw")]_vars

\* C8: playAnimation and loadStateMachine called while no artboard is loaded
\* leave the lists as they were and do not throw.
C8_NoArtboardIsNoOp ==
    [][(/\ call'.op \in {"loadStateMachine", "playAnimation"}
        /\ artboard.id = NoId)
       => (/\ stateMachines' = stateMachines
           /\ animations' = animations
           /\ ret' # "throw")]_vars

\* ----------------------------------------------- claims on the frame driver

\* The calls a frame step makes to advance and draw the scene.
AdvanceEvents == {"sm.advance", "anim.advance", "anim.apply", "artboard.advance"}
DrawEvents == {"renderer.clear", "artboard.draw", "renderer.flush"}

\* The frame steps of the last frame: the places of the log where a renderLoop
\* call begins, and the events of the step that begins at k.
StepStarts == {i \in DOMAIN log : log[i].ev = "renderLoop"}
StepEvents(k) ==
    {i \in DOMAIN log : i > k /\ \A j \in StepStarts : j <= k \/ j > i}

\* C2: once disable() has returned and until enable() is called, no frame of the
\* host advances or draws the artboard.
C2_DisableStopsAdvancing ==
    (call.op = "frame" /\ hist.disabled) =>
        \A i \in DOMAIN log : log[i].ev \notin AdvanceEvents \cup DrawEvents

\* C3: the first frame step that runs after an enable() that followed a disable()
\* advances with elapsed = 0.
C3_ResumeFromZero ==
    [][(hist.resuming /\ call'.op = "frame" /\ log' # << >>)
       => \A i \in DOMAIN log' :
             (\A j \in DOMAIN log' : (j <= i /\ log'[j].ev = "renderLoop") => j = 1)
                 => log'[i].elapsed = 0]_vars

\* The state names the machines advanced in a step reported, in order.
RECURSIVE Reported(_, _)
Reported(k, i) ==
    IF i > Len(log) \/ (i > k /\ log[i].ev = "renderLoop") THEN << >>
    ELSE (IF log[i].ev = "sm.advance" THEN log[i].states ELSE << >>)
             \o Reported(k, i + 1)

\* C4: in every frame step the state-change callback is invoked at most once;
\* when some machine changed state it is invoked exactly once, with the names
\* all the machines reported.
C4_OneCallbackPerStep ==
    call.op = "frame" =>
        \A k \in StepStarts :
            LET callbacks == {i \in StepEvents(k) : log[i].ev = "onStateChange"}
            IN  /\ Cardinality(callbacks) <= 1
                /\ (options.onStateChange /\ Reported(k, k) # << >>) =>
                       \E i \in callbacks : log[i].states = Reported(k, k)

\* ----------------------------------------------- claims on the input fields

\* The registry's entries for a name that are, or are not, of trigger kind.
Triggers(name) == {f \in inputFields : f.name = name /\ f.kind = "trigger"}
Writable(name) == {f \in inputFields : f.name = name /\ f.kind # "trigger"}

\* The value of every input of every active state machine.
FieldValues == [i \in DOMAIN stateMachines |-> stateMachines[i].vals]
\* The places of FieldValues a field handle stands for.
PlacesOf(f) == {i \in DOMAIN stateMachines : stateMachines[i].id = f.owner}

\* C9: setInputValue(name, value) changes no field but the registry's field of
\* that name, and that one only when it is not a trigger; getInputValue(name)
\* called next returns the value written; getInputValue of a name the registry
\* does not hold returns undefined.
C9_SetThenGet ==
    [][/\ call'.op = "setInputValue" =>
            \A i \in DOMAIN stateMachines :
                \/ FieldValues'[i] = FieldValues[i]
                \/ \E f \in Writable(call'.arg[1]) :
                      /\ i \in PlacesOf(f)
                      /\ FieldValues'[i] =
                            [FieldValues[i] EXCEPT ![f.index] = call'.arg[2]]
       /\ (/\ call.op = "setInputValue" /\ call'.op = "getInputValue"
           /\ call'.arg[1] = call.arg[1] /\ Writable(call.arg[1]) # {})
              => ret' = call.arg[2]
       /\ (call'.op = "getInputValue" /\ Field(This(NoOracle), call'.arg[1]) = {})
              => ret' = Undefined]_vars

\* C10: fireTrigger(name) fires the registry's field of that name once when it
\* is a trigger, fires nothing otherwise, and changes no field value.
C10_FireOnlyTriggers ==
    [][call'.op = "fireTrigger" =>
          LET fired == {i \in DOMAIN log' : log'[i].ev = "input.fire"}
          IN  /\ Cardinality(fired) =
                    (IF Triggers(call'.arg[1]) # {} THEN 1 ELSE 0)
              /\ \A i \in fired : \E f \in Triggers(call'.arg[1]) :
                                     log'[i].id = f.owner
              /\ stateMachines' = stateMachines]_vars

\* ------------------------------------------------------ claims on destroy

\* The place of a call of destroy() in the order of release: the disabling of
\* the frame loop, the instances of the lists, the artboard, the renderer, the
\* file handle.  0 for a call that releases nothing.
ReleaseRank(e) ==
    CASE e.ev = "disable" -> 1
      [] e.ev = "delete" /\ e.id # artboard.id -> 2
      [] e.ev = "delete" /\ e.id = artboard.id -> 3
      [] e.ev = "renderer.delete" -> 4
      [] e.ev = "file.delete" -> 5
      [] OTHER -> 0
Released(rank) == {i \in DOMAIN log : ReleaseRank(log[i]) = rank}

\* C11: destroy() disables the frame loop before it releases anything, releases
\* every state-machine and animation instance of the lists before the artboard,
\* the artboard before the renderer and the renderer before the file handle;
\* nothing it owns is left unreleased.
C11_DestroyOrder ==
    call.op = "destroy" =>
        /\ ~enabled /\ animFrame = NoId
        /\ Cardinality(Released(1)) = 1
        /\ \A i, j \in DOMAIN log :
              (i < j /\ ReleaseRank(log[i]) # 0 /\ ReleaseRank(log[j]) # 0)
                  => ReleaseRank(log[i]) <= ReleaseRank(log[j])
        /\ \A o \in InstanceLists :
              o.deletes = 1 /\ \E i \in Released(2) : log[i].id = o.id
        /\ artboard.id # NoId => (artboard.deletes = 1 /\ Released(3) # {})
        /\ renderer => (rendererDeletes = 1 /\ Released(4) # {})
        /\ file => (fileDeletes = 1 /\ Released(5) # {})

\* C11 witness: destroy() of a sprite with the frame loop enabled, a state
\* machine, an animation, an artboard, the renderer and the file.
C11_Witness ==
    /\ call.op = "destroy"
    /\ stateMachines # << >> /\ animations # << >>
    /\ Released(2) # {} /\ Released(3) # {} /\ Released(4) # {} /\ Released(5) # {}
    /\ \E i \in DOMAIN log : log[i].ev = "cancelAnimationFrame"

\* ------------------------------------------------------ claims on sizing

\* A frame has drawn the artboard.
Drawn == call.op = "frame" /\ \E i \in DOMAIN log : log[i].ev = "artboard.draw"
\* A pointer event has been handled.
Translated == call.op \in PointerKinds /\ options.interactive

\* C12: whenever a pointer event is translated or a frame is drawn with an
\* artboard loaded, the cached alignment is the one of the current fit, align,
\* maxWidth, maxHeight and artboard.
C12_AlignmentIsCurrent ==
    ((Drawn \/ Translated) /\ artboard.id # NoId) =>
        LET frame == << IF maxWidth # 0 THEN maxWidth
                        ELSE BoundsOf(artboard.name).maxX - BoundsOf(artboard.name).minX,
                        IF maxHeight # 0 THEN maxHeight
                        ELSE BoundsOf(artboard.name).maxY - BoundsOf(artboard.name).minY >>
        IN  aligned = Alignment(fit, align, frame, artboard.id,
                                BoundsOf(artboard.name))

\* ------------------------------------------------- claims on animations

\* C13: the list of active animations never holds more than one instance.
C13_OneAnimation == Len(animations) <= 1

\* The list without the instances of a name.
Without(list, name) == SelectSeq(list, LAMBDA o : o.name # name)

\* C14: on a loaded artboard, playAnimation() with empty input and no active
\* state machine registers a new instance of the artboard's first animation,
\* bound to the artboard, in place of any instance of that name; with an active
\* state machine it leaves the animation list as it is and creates nothing.
\* Construction with neither option on an artboard with a state machine leaves
\* the first state machine active and no animation.
C14_DefaultAnimation ==
    [][/\ (call'.op = "playAnimation" /\ call'.arg = << >> /\ artboard.id # NoId) =>
            IF stateMachines = << >>
            THEN /\ ret' # "throw"
                 /\ created' = created + 1
                 /\ animations' = Append(Without(animations, AnimationNames[1]),
                                         Instance(created', AnimationNames[1],
                                                  artboard.id, << >>))
            ELSE /\ ret' # "throw"
                 /\ animations' = animations /\ created' = created
       /\ (/\ call'.op = "initRive" /\ call'.arg = << "file" >>
           /\ options.stateMachine = Arr(<< >>) /\ options.animation = Arr(<< >>)
           /\ artboard'.id # NoId) =>
            /\ Len(stateMachines') = 1
            /\ stateMachines'[1].name = StateMachineNames[1]
            /\ stateMachines'[1].deletes = 0
            /\ animations' = << >>]_vars

\* C14 witness: playAnimation() has registered the first animation on an artboard
\* without an active state machine.
C14_Witness ==
    /\ call.op = "playAnimation" /\ call.arg = << >>
    /\ stateMachines = << >>
    /\ Len(animations) = 2
    /\ animations[2].name = AnimationNames[1]

\* ------------------------------------------------ claims on pointer events

\* The alignment translatePoint inverts: the cached one, or the identity.
CachedAlignment ==
    IF aligned # NotAligned THEN aligned
    ELSE [tx |-> Num(0), ty |-> Num(0), xx |-> Num(1), yy |-> Num(1)]
\* The forward transform of a point: multiply by the scale, add the translation.
Forward(a, point) ==
    << Plus(Times(point[1], a.xx), a.tx), Plus(Times(point[2], a.yy), a.ty) >>
SamePoint(p, q) == Same(p[1], q[1]) /\ Same(p[2], q[2])

\* C15: with the interactive option a pointer event calls the pointer method of
\* its kind once on every state machine of the active list, in list order, none
\* of them released, and on nothing else, with the point whose forward transform
\* through the cached alignment is the event's point; without the option a
\* pointer event calls nothing.
C15_PointerForwarding ==
    call.op \in PointerKinds =>
        IF options.interactive
        THEN /\ Len(log) = Len(stateMachines)
             /\ \A i \in DOMAIN log :
                   /\ log[i].ev = call.op
                   /\ log[i].id = stateMachines[i].id
                   /\ stateMachines[i].deletes = 0
                   /\ SamePoint(Forward(CachedAlignment, log[i].states), call.arg)
        ELSE log = << >>

\* C15 witness: a pointer event forwarded to two state machines through an
\* alignment that translates.
C15_Witness ==
    /\ call.op \in PointerKinds /\ options.interactive
    /\ Len(log) = 2
    /\ ~Same(aligned.ty, Num(0))

\* C16: translatePoint of the point (x, y) gives ((x - tx) / xx, (y - ty) / yy)
\* for the cached alignment, whose scales are not zero, and the forward transform
\* of the result is (x, y); with no cached alignment the result is (x, y).
C16_TranslateRoundTrip ==
    call.op = "translatePoint" =>
        /\ aligned # NotAligned =>
              /\ Same(Times(ret[1], aligned.xx), Minus(call.arg[1], aligned.tx))
              /\ Same(Times(ret[2], aligned.yy), Minus(call.arg[2], aligned.ty))
              /\ SamePoint(Forward(aligned, ret), call.arg)
        /\ aligned = NotAligned => SamePoint(ret, call.arg)

\* C16 witness: a point translated through an alignment with two different
\* scales, one of them a fraction, and a translation.
C16_Witness ==
    /\ call.op = "translatePoint"
    /\ aligned # NotAligned
    /\ aligned.xx = Frac(1, 2) /\ aligned.yy = Num(-1)
    /\ aligned.tx = Frac(-3, 2) /\ aligned.ty = Num(1)
    /\ call.arg = << Frac(5, 2), Num(3) >>
    /\ SamePoint(ret, << Num(8), Num(-2) >>)

\* ------------------------------------------- more claims on the render loop

\* C17: at most one frame step is pending in the host scheduler.
C17_OneStepPending == Cardinality(pending) <= 1

\* The place of a call in the order of a frame step; 0 for a call the order
\* does not speak of.
StepRank(e) ==
    CASE e.ev \in {"sm.advance", "onStateChange"} -> 1
      [] e.ev \in {"anim.advance", "anim.apply"} -> 2
      [] e.ev = "artboard.advance" -> 3
      [] e.ev = "renderer.clear" -> 4
      [] e.ev = "artboard.draw" -> 5
      [] e.ev = "renderer.flush" -> 6
      [] e.ev = "texture.update" -> 7
      [] OTHER -> 0
\* The calls of one kind on one instance in the step that starts at k.
CallsIn(k, ev, id) == {i \in StepEvents(k) : log[i].ev = ev /\ log[i].id = id}

\* C18: a frame step with an artboard loaded advances every active state machine,
\* then advances and applies every active animation, then advances the artboard,
\* then clears, draws, flushes and updates the texture, each once and in that
\* order, and every advance gets the elapsed time of the step.
C18_StepOrder ==
    (call.op = "frame" /\ artboard.id # NoId /\ renderer) =>
        \A k \in StepStarts :
            /\ \A i, j \in StepEvents(k) : i < j => StepRank(log[i]) <= StepRank(log[j])
            /\ \A i \in StepEvents(k) :
                  log[i].ev \in {"sm.advance", "anim.advance", "artboard.advance"}
                      => log[i].elapsed = log[k].elapsed
            /\ \A m \in Range(stateMachines) :
                  Cardinality(CallsIn(k, "sm.advance", m.id)) = 1
            /\ \A a \in Range(animations) :
                  /\ Cardinality(CallsIn(k, "anim.advance", a.id)) = 1
                  /\ Cardinality(CallsIn(k, "anim.apply", a.id)) = 1
            /\ Cardinality(CallsIn(k, "artboard.advance", artboard.id)) = 1
            /\ Cardinality(CallsIn(k, "renderer.clear", NoId)) = 1
            /\ Cardinality(CallsIn(k, "artboard.draw", artboard.id)) = 1
            /\ Cardinality(CallsIn(k, "renderer.flush", NoId)) = 1
            /\ Cardinality(CallsIn(k, "texture.update", NoId)) = 1

\* C18 witness: a frame step that has advanced a state machine and two
\* animations with an elapsed time that is not zero, and drawn.
C18_Witness ==
    /\ call.op = "frame"
    /\ stateMachines # << >> /\ Len(animations) = 2
    /\ \E k \in StepStarts :
          /\ log[k].elapsed # 0
          /\ \E i \in StepEvents(k) : log[i].ev = "onStateChange"
          /\ \E i \in StepEvents(k) : log[i].ev = "artboard.draw"

\* The calls of disable() made while a frame step was running.
InFlight == {d \in DOMAIN log : call.op = "frame" /\ log[d].ev = "disable"}

\* C19: when disable() is called while a frame step runs, that step still
\* advances and draws the artboard, no other step runs after the call, and no
\* step is pending when the frame ends.
C19_DisableInFlight ==
    \A d \in InFlight :
        /\ \E k \in StepStarts :
              /\ d \in StepEvents(k)
              /\ \E i \in StepEvents(k) : i > d /\ log[i].ev = "artboard.advance"
              /\ \E i \in StepEvents(k) : i > d /\ log[i].ev = "artboard.draw"
        /\ \A i \in DOMAIN log : i > d => log[i].ev # "renderLoop"
        /\ pending = {}

\* ------------------------------------------------- claims on the artboard

\* The artboards a handler has created, and its releases of an instance.
NewArtboards(events) ==
    {i \in DOMAIN events : events[i].ev = "new"
                              /\ events[i].states[1] \in Range(ArtboardNames)}
ReleasesOf(events, id) ==
    {i \in DOMAIN events : events[i].ev = "delete" /\ events[i].id = id}

UsedAfterRelease ==
    {j \in DOMAIN log :
        /\ log[j].ev = "sm.advance"
        /\ \E i \in DOMAIN log :
              i < j /\ log[i].ev = "delete" /\ log[i].id = log[j].id}

\* C21: within a frame, no state-machine instance is advanced or asked for its
\* state changes after it has been released, also when the state-change callback
\* of one machine unloads or reloads a machine later in the list.
C21_NoAdvanceAfterRelease ==
    call.op = "frame" => UsedAfterRelease = {}

\* ------------------------------------------------------ claims on teardown

\* The calls of a handler on a released native handle: an advance, apply or draw
\* of an instance that is released, or a call on the released renderer.
OnReleased ==
    {i \in DOMAIN log :
        \/ /\ log[i].ev \in AdvanceEvents \cup {"artboard.draw"}
           /\ ~Live(This(NoOracle), log[i].id)
        \/ /\ log[i].ev \in DrawEvents
           /\ rendererDeletes # 0}

\* C22: a frame of the host after destroy() has returned calls nothing on a
\* released artboard, renderer, state machine or animation, and leaves no frame
\* step scheduled.
C22_NoStepAfterDestroy ==
    (destroyed /\ call.op = "frame") =>
        /\ OnReleased = {}
        /\ pending = {}

\* The asynchronous initialisation has completed on a sprite that was destroyed
\* before.
CompletedAfterDestroy ==
    destroyed /\ call.op = "initRive" /\ call.arg = << "file" >>

\* C23: when destroy() was called before the initialisation completed, its
\* completion creates no artboard, state-machine or animation instance,
\* schedules no frame step and leaves no native handle unreleased.
C23_DestroyBeforeInit ==
    CompletedAfterDestroy =>
        /\ created = 0
        /\ Held(This(NoOracle)) = {}
        /\ pending = {}
        /\ file => fileDeletes # 0
        /\ renderer => rendererDeletes # 0

\* ------------------------------------------ claims on early enable/disable

\* The driver is running: the loop is enabled and a frame step is pending.
Running == enabled /\ pending # {}
\* The driver is stopped: the loop is not enabled and no stored request is pending.
Stopped == ~enabled /\ animFrame = 0

\* C24: when the initialisation completes, the driver runs if the caller's last
\* enable()/disable() before the completion was enable(), is stopped if it was
\* disable(), and follows autoPlay if there was none.
C24_EarlyRequestWins ==
    [][(call'.op = "initRive" /\ call'.arg = << "file" >> /\ ret' # "throw") =>
          CASE hist.early = "enable" -> Running'
            [] hist.early = "disable" -> Stopped'
            [] OTHER -> IF options.autoPlay THEN Running' ELSE Stopped']_vars

\* ------------------------------------------------ claims on native handles

\* The identities of the instances the sprite refers to.
HeldIds == {o.id : o \in Held(This(NoOracle))}
\* The instances a handler created.
Creations(events) == {i \in DOMAIN events : events[i].ev = "new"}

\* C25: every native instance created is released exactly once.  No handler
\* releases an instance twice or one that was released before; an instance the
\* sprite stops referring to has been released; and once destroy() has been
\* called every instance, the renderer and the file are released, once.
C25_ReleasedExactlyOnce ==
    [][/\ \A o \in Held(This(NoOracle)) :
             /\ Cardinality(ReleasesOf(log', o.id)) <= 1 - o.deletes
             /\ o.id \notin HeldIds' => ReleasesOf(log', o.id) # {}
       /\ \A i \in Creations(log') :
             /\ Cardinality(ReleasesOf(log', log'[i].id)) <= 1
             /\ log'[i].id \notin HeldIds' => ReleasesOf(log', log'[i].id) # {}
       /\ fileDeletes' <= 1 /\ rendererDeletes' <= 1
       /\ destroyed' =>
             /\ \A o \in Held(This(NoOracle))' : o.deletes = 1
             /\ file' => fileDeletes' = 1
             /\ renderer' => rendererDeletes' = 1]_vars

\* ------------------------------------------------- claims on liveness

\* The last handler run was a frame of the host that ran a frame step.
Stepped == call.op = "frame" /\ StepStarts # {}

\* C26: while the sprite is initialised and enabled, and neither disable() nor
\* destroy() is called, a frame step is always pending and every frame the host
\* delivers runs a step: from every reading of the clock a later frame step
\* follows.  With autoPlay false and no enable() call, one frame step runs after
\* the initialisation, it is the only one, and nothing is pending after it.
C26_FrameLoopLiveness ==
    /\ []((pc = "ready" /\ enabled) => pending # {})
    /\ \A t \in 0 .. MaxTime - 1 :
          (pc = "ready" /\ enabled /\ now = t) ~> (Stepped /\ lastTime > t)
    /\ [][(pc = "ready" /\ ~options.autoPlay /\ ~enabled' /\ now' # now
              /\ StepStarts' # {})
          => (/\ lastTime = 0
              /\ Cardinality(StepStarts') = 1
              /\ pending' = {})]_vars
    /\ []((pc = "ready" /\ ~options.autoPlay /\ ~enabled /\ lastTime # 0)
             => pending = {})
    /\ (pc = "ready" /\ ~options.autoPlay /\ ~enabled /\ lastTime = 0
           /\ now < MaxTime)
          ~> (enabled \/ (Stepped /\ pending = {}))

\* C26 witness: with the loop enabled since the initialisation, every frame up
\* to the last has run a frame step and another step is pending.
C26_Witness ==
    /\ Stepped /\ enabled /\ pc = "ready" /\ options.autoPlay
    /\ now = MaxTime /\ lastTime = MaxTime
    /\ \E k \in StepStarts : log[k].elapsed = 1
    /\ pending # {}

====
